---------------------------- MODULE Spec2Model ----------------------------
(***************************************************************************)
(* State-machine model of the SysML-to-diagram converters                  *)
(*   src/SysML2Mermaid.py, src/SysML2dot.py, src/SysML2UML.py.             *)
(*                                                                         *)
(* Each program reads a text line by line (parse_indented_model), builds   *)
(* the intermediate tree and renders it.  A line of the text is a record   *)
(*   [indent, kind, name, type, brace]                                     *)
(* where indent is len(line) - len(line.lstrip()), kind says which of the  *)
(* regular expressions is the first to match the line ("closing_brace" is  *)
(* a line whose stripped content is "}", "other" any other line no         *)
(* pattern matches), name is the text captured by group 1 (a sequence of   *)
(* chunks: SP, QUOTE or a word), type the text captured by group 3 of      *)
(* part_pattern, and brace is line.rstrip().endswith("{").  Lines carry    *)
(* no `as` clause here; the regular expressions themselves are modelled    *)
(* character by character further down (package_pattern).                  *)
(*                                                                         *)
(* The tree is the sequence `nodes` in creation order; nodes[i].parent is  *)
(* the index of the node whose "parts" list holds node i (0: the dummy     *)
(* root).  list.append keeps encounter order, so the "parts" list of p is  *)
(* the increasing sequence of the i with nodes[i].parent = p.              *)
(***************************************************************************)
EXTENDS Integers, Sequences, FiniteSets, TLC

VARIABLES variant, input, stack, prev_indent, nodes, root, printed, crashed,
          text, matched, mermaid_code, plantuml_code, dot_code, again

vars == <<variant, input, stack, prev_indent, nodes, root, printed, crashed,
          text, matched, mermaid_code, plantuml_code, dot_code, again>>

\* the texts written by the three builders; NotBuilt before the call
\* `again` holds what a second call of each builder on the same tree returns
codeVars == <<mermaid_code, plantuml_code, dot_code, again>>
NotBuilt == <<>>
NotCalledAgain == [mermaid |-> NotBuilt, plantuml |-> NotBuilt, dot |-> NotBuilt]

parserVars == <<input, stack, prev_indent, nodes, root, printed, crashed>>

-----------------------------------------------------------------------------
(* Bounds of the model *)

\* number of non-blank lines of a text
MaxLines == 3
\* largest leading-whitespace width of a line
MaxIndent == 2
\* number of declarations of a text handed on to all three builders, or to
\* build_dot_from_tree
MaxNodes == 3
\* number of declarations of a text handed on to build_plantuml_from_tree
MaxUMLNodes == 4
\* number of words of a name written on a package or actor line
MaxWords == 2
\* number of blanks between the keyword and the name
MaxSpaces == 2

-----------------------------------------------------------------------------
(* Strings *)

SP == " "
QUOTE == "\""
\* the value of a node that has no "description" key
NoDescription == <<"<absent>">>

\* alias = None: the node gets no "alias" key
NoAlias == <<>>

\* text.strip(): leading and trailing whitespace chunks removed
RECURSIVE StripSpace(_)
StripSpace(s) ==
    IF s = <<>> THEN s
    ELSE IF Head(s) = SP THEN StripSpace(Tail(s))
    ELSE IF s[Len(s)] = SP THEN StripSpace(SubSeq(s, 1, Len(s) - 1))
    ELSE s

\* text.strip('"'): leading and trailing double quotes removed
RECURSIVE StripQuote(_)
StripQuote(s) ==
    IF s = <<>> THEN s
    ELSE IF Head(s) = QUOTE THEN StripQuote(Tail(s))
    ELSE IF s[Len(s)] = QUOTE THEN StripQuote(SubSeq(s, 1, Len(s) - 1))
    ELSE s

\* text.startswith(prefix), prefix one chunk
StartsWith(s, prefix) == Len(s) >= 1 /\ s[1] = prefix

-----------------------------------------------------------------------------
(* parse_indented_model: the state of the loop *)

Variants == {"Mermaid", "dot", "UML"}

Sentinel == [indent |-> 0, node |-> 0]

ScopeTypes == {"LogicalComponent", "LogicalFunction", "LogicalActor"}

ParserInit ==
    [stack |-> <<Sentinel>>, prev_indent |-> 0, nodes |-> <<>>,
     root |-> [description |-> NoDescription], printed |-> <<>>,
     crashed |-> FALSE]

Top(stk) == stk[Len(stk)]

\* faulty variant, used to test the sensitivity of the properties: the guard with < for <=
PopGuardStrict(indent, prev) == indent < prev

\* `if indent <= prev_indent:` guarding the pop loop
PopGuard(indent, prev) == indent <= prev

\* faulty variant, used to test the sensitivity of the properties: the loop with > for >=
RECURSIVE PopLoopStrict(_, _)
PopLoopStrict(stk, indent) ==
    IF Len(stk) > 1 /\ stk[Len(stk)].indent > indent
    THEN PopLoopStrict(SubSeq(stk, 1, Len(stk) - 1), indent)
    ELSE stk

\* `while len(stack) > 1 and stack[-1][0] >= indent: stack.pop()`
RECURSIVE PopLoop(_, _)
PopLoop(stk, indent) ==
    IF Len(stk) > 1 /\ Top(stk).indent >= indent
    THEN PopLoop(SubSeq(stk, 1, Len(stk) - 1), indent)
    ELSE stk

\* faulty variant, used to test the sensitivity of the properties: the loop with <= for <
RECURSIVE UMLPopLoopInclusive(_, _)
UMLPopLoopInclusive(stk, indent) ==
    IF Len(stk) > 0 /\ indent <= stk[Len(stk)].indent
    THEN UMLPopLoopInclusive(SubSeq(stk, 1, Len(stk) - 1), indent)
    ELSE stk

\* `while stack and indent < stack[-1][0]: stack.pop()`
RECURSIVE UMLPopLoop(_, _)
UMLPopLoop(stk, indent) ==
    IF Len(stk) > 0 /\ indent < Top(stk).indent
    THEN UMLPopLoop(SubSeq(stk, 1, Len(stk) - 1), indent)
    ELSE stk

\* The start of an iteration: indentation, pop, prev_indent.
AdjustScope(st, line) ==
    [st EXCEPT !.stack = IF PopGuard(line.indent, st.prev_indent)
                         THEN PopLoop(st.stack, line.indent)
                         ELSE st.stack,
               !.prev_indent = line.indent]

UMLAdjustScope(st, line) ==
    [st EXCEPT !.stack = UMLPopLoop(st.stack, line.indent)]

\* stack[-1][1].setdefault("parts", []).append(node)
AppendPart(st, node) ==
    LET p == Top(st.stack).node
        withKey == IF p = 0 THEN st.nodes
                   ELSE [st.nodes EXCEPT ![p].parts = TRUE]
    IN  [st EXCEPT !.nodes = Append(withKey, [node EXCEPT !.parent = p])]

\* stack.append((indent, node)), node the one just appended
Push(st, indent) ==
    [st EXCEPT !.stack = Append(st.stack, [indent |-> indent, node |-> Len(st.nodes)])]

\* whether the pure-indentation parser pushes the node of a part line
PartIsPushed(type) == TRUE

NewNode(type, name, parts) ==
    [type |-> type, name |-> name, alias |-> NoAlias, parts |-> parts,
     parent |-> 0, description |-> NoDescription]

\* stack[-1][1]["description"] = desc
SetDescription(st, desc) ==
    LET p == Top(st.stack).node
    IN  IF p = 0 THEN [st EXCEPT !.root.description = desc]
        ELSE [st EXCEPT !.nodes[p].description = desc]

\* faulty variant, used to test the sensitivity of the properties: the warning lost
WarnDropped(st, line) == st

\* print("Warning: Unhandled line:", line)
Warn(st, line) == [st EXCEPT !.printed = Append(st.printed, line)]

\* One iteration of the loop of SysML2Mermaid.parse_indented_model
\* (SysML2dot.parse_indented_model is the same code).
ParseLine(st, line) ==
    LET s == AdjustScope(st, line)
    IN  CASE line.kind = "package" ->
               Push(AppendPart(s, NewNode("Package", StripSpace(StripQuote(line.name)), TRUE)),
                    line.indent)
          [] line.kind = "part" ->
               LET a == AppendPart(s, NewNode(line.type, StripSpace(line.name),
                                              line.type \in ScopeTypes))
               IN  IF PartIsPushed(line.type) THEN Push(a, line.indent) ELSE a
          [] line.kind = "actor" ->
               Push(AppendPart(s, NewNode("LogicalActor", StripSpace(StripQuote(line.name)), FALSE)),
                    line.indent)
          [] line.kind = "description" ->
               SetDescription(s, StripSpace(line.name))
          [] OTHER -> Warn(s, line)

\* whether SysML2UML passes a line with content == '}' without a warning
UMLSkipsClosingBrace(line) == line.kind = "closing_brace"

\* One iteration of the loop of SysML2UML.parse_indented_model.  An empty
\* stack at stack[-1] raises IndexError: crashed.
UMLParseLine(st, line) ==
    LET s == UMLAdjustScope(st, line)
    IN  IF s.stack = <<>> /\ line.kind \in {"package", "part", "actor", "description"}
        THEN [s EXCEPT !.crashed = TRUE]
        ELSE
        CASE line.kind = "package" ->
               LET a == AppendPart(s, NewNode("Package", StripQuote(line.name), TRUE))
               IN  IF line.brace THEN Push(a, line.indent + 1) ELSE a
          [] line.kind = "part" ->
               LET a == AppendPart(s, NewNode(line.type, line.name, line.type \in ScopeTypes))
               IN  IF line.brace THEN Push(a, line.indent + 1) ELSE a
          [] line.kind = "actor" ->
               AppendPart(s, NewNode("LogicalActor", StripQuote(line.name), FALSE))
          [] line.kind = "description" ->
               SetDescription(s, line.name)
          [] OTHER ->
               IF UMLSkipsClosingBrace(line) THEN s ELSE Warn(s, line)

Step(v, st, line) ==
    IF v = "UML" THEN UMLParseLine(st, line) ELSE ParseLine(st, line)

\* parse_indented_model on a whole text
RECURSIVE ParseAll(_, _, _)
ParseAll(v, st, lines) ==
    IF lines = <<>> THEN st
    ELSE ParseAll(v, Step(v, st, Head(lines)), Tail(lines))

-----------------------------------------------------------------------------
(* The texts read *)

Indents == 0 .. MaxIndent

PlainName == <<"x">>

Line(i, k, n, t, b) == [indent |-> i, kind |-> k, name |-> n, type |-> t, brace |-> b]

\* A trailing "{" is looked at by SysML2UML only.
Braces(v) == IF v = "UML" THEN BOOLEAN ELSE {FALSE}

PackageLines(v) == {Line(i, "package", PlainName, "", b) : i \in Indents, b \in Braces(v)}
\* SysML2UML pushes a part by its trailing "{" whatever its type, so one type
\* is read there; the pure-indentation parsers read a scope type and another.
PartTypes(v) == IF v = "UML" THEN {"LogicalComponent"} ELSE {"LogicalComponent", "Sensor"}
PartLines(v) ==
    {Line(i, "part", PlainName, t, b) :
        i \in Indents, t \in PartTypes(v), b \in Braces(v)}
ActorLines == {Line(i, "actor", PlainName, "", FALSE) : i \in Indents}
DescriptionLines == {Line(i, "description", <<"d">>, "", FALSE) : i \in Indents}
ClosingBraceLines == {Line(i, "closing_brace", <<>>, "", FALSE) : i \in Indents}
OtherLines == {Line(i, "other", <<>>, "", FALSE) : i \in Indents}

-----------------------------------------------------------------------------
(* The parser as a state machine: one action per kind of line read *)

ParserState ==
    [stack |-> stack, prev_indent |-> prev_indent, nodes |-> nodes,
     root |-> root, printed |-> printed, crashed |-> crashed]

Read(line) ==
    /\ Len(input) < MaxLines
    /\ ~crashed
    /\ \E st \in {Step(variant, ParserState, line)} :
           /\ stack' = st.stack
           /\ prev_indent' = st.prev_indent
           /\ nodes' = st.nodes
           /\ root' = st.root
           /\ printed' = st.printed
           /\ crashed' = st.crashed
    /\ input' = Append(input, line)
    /\ UNCHANGED <<variant, text, matched, codeVars>>

PackageLine == \E line \in PackageLines(variant) : Read(line)
PartLine == \E line \in PartLines(variant) : Read(line)
ActorLine == \E line \in ActorLines : Read(line)
DescriptionLine == \E line \in DescriptionLines : Read(line)
ClosingBraceLine == \E line \in ClosingBraceLines : Read(line)
UnhandledLine == \E line \in OtherLines : Read(line)

Init ==
    /\ variant \in Variants
    /\ input = <<>>
    /\ stack = ParserInit.stack
    /\ prev_indent = ParserInit.prev_indent
    /\ nodes = ParserInit.nodes
    /\ root = ParserInit.root
    /\ printed = ParserInit.printed
    /\ crashed = ParserInit.crashed
    /\ text = <<>>
    /\ matched = <<>>
    /\ mermaid_code = NotBuilt
    /\ plantuml_code = NotBuilt
    /\ dot_code = NotBuilt
    /\ again = NotCalledAgain

Next ==
    \/ PackageLine
    \/ PartLine
    \/ ActorLine
    \/ DescriptionLine
    \/ ClosingBraceLine
    \/ UnhandledLine

Spec == Init /\ [][Next]_vars

-----------------------------------------------------------------------------
(* The tree handed to the builders *)

\* node.get("parts", []) of node p of tree t (p = 0: the dummy root), as the
\* sequence of the nodes' indices
Parts(t, p) == SelectSeq([i \in 1..Len(t) |-> i], LAMBDA i : t[i].parent = p)

\* node.get("description", "")
DescriptionOr(node, default) ==
    IF node.description = NoDescription THEN default ELSE node.description

-----------------------------------------------------------------------------
(* SysML2Mermaid.build_mermaid_flowchart_from_tree *)
(*                                                                         *)
(* A line written is a record; `node` is the node whose process_node call  *)
(* wrote it and `level` the number of 4-blank indentation units.           *)

\* html_label_two_compartment(top_text, bottom_text, ...)
html_label_two_compartment(top_text, bottom_text) ==
    [shape |-> "two_compartment", top |-> top_text, bottom |-> bottom_text]

\* html_label_bottom_only(text, ...)
html_label_bottom_only(label_text) ==
    [shape |-> "bottom_only", top |-> <<>>, bottom |-> label_text]

PlainLabel(name) == [shape |-> "plain", top |-> <<>>, bottom |-> name]

\* node["name"].replace(" ", "_")
NodeId(name) == [i \in 1..Len(name) |-> IF name[i] = SP THEN "_" ELSE name[i]]

MermaidLine(kind, n, level, id, label) ==
    [kind |-> kind, node |-> n, level |-> level, id |-> id, label |-> label]

\* whether process_node goes through node.get("parts", []) after the
\* if/elif chain (the loop under `# Process children (if any)`)
ProcessesChildrenAfterChain(typ) == TRUE

RECURSIVE process_node(_, _, _), process_children(_, _, _)
\* process_node(node, level): the lines it appends
process_node(t, n, level) ==
    LET node == t[n]
        node_id == NodeId(node.name)
        typ == node.type
        nothing == PlainLabel(<<>>)
        own ==
          IF typ = "Package"
          THEN <<MermaidLine("subgraph", n, level, node_id, PlainLabel(node.name))>>
               \o process_children(t, Parts(t, n), level + 1)
               \o <<MermaidLine("end", n, level, <<>>, nothing)>>
          ELSE IF typ = "LogicalFunction"
          THEN <<MermaidLine("entry", n, level, node_id,
                    html_label_two_compartment(node.name, DescriptionOr(node, <<>>)))>>
          ELSE IF typ \in {"LogicalComponent", "LogicalActor"}
          THEN <<MermaidLine("entry", n, level, node_id, html_label_bottom_only(node.name))>>
          ELSE <<MermaidLine("entry", n, level, node_id, PlainLabel(node.name))>>
    IN  own \o (IF ProcessesChildrenAfterChain(typ)
                THEN process_children(t, Parts(t, n), level + 1)
                ELSE <<>>)

\* for child in ...: process_node(child, level)
process_children(t, children, level) ==
    IF children = <<>> THEN <<>>
    ELSE process_node(t, Head(children), level)
         \o process_children(t, Tail(children), level)

build_mermaid_flowchart_from_tree(t) ==
    <<MermaidLine("flowchart TD", 0, 0, <<>>, PlainLabel(<<>>))>>
    \o process_children(t, Parts(t, 0), 1)

-----------------------------------------------------------------------------
(* SysML2UML.build_plantuml_from_tree *)

DroneDevelopment == "DroneDevelopment"
DroneFunctions == "DroneFunctions"
DroneLogicalArchitecture == "DroneLogicalArchitecture"

\* child.get("name", "").strip().startswith("DroneFunctions")
IsFunctionsChild(name) == StartsWith(StripSpace(name), DroneFunctions)

\* node.get("name", "").strip().startswith("DroneDevelopment")
IsDevelopmentPackage(name) == StartsWith(StripSpace(name), DroneDevelopment)

\* faulty variant, used to test the sensitivity of the properties: the two groups the other way round
reorder_children_others_first(t, children) ==
    SelectSeq(children, LAMBDA c : ~IsFunctionsChild(t[c].name))
    \o SelectSeq(children, LAMBDA c : IsFunctionsChild(t[c].name))

\* reorder_children(children): functions + others
reorder_children(t, children) ==
    SelectSeq(children, LAMBDA c : IsFunctionsChild(t[c].name))
    \o SelectSeq(children, LAMBDA c : ~IsFunctionsChild(t[c].name))

\* format_element(name, alias) and the stereotype, kept apart
UMLLine(kind, n, level, name, alias) ==
    [kind |-> kind, node |-> n, level |-> level, name |-> name, alias |-> alias]

RECURSIVE generate_plantuml(_, _, _), generate_plantuml_children(_, _, _)
\* generate_plantuml(node, indent): the lines it returns
generate_plantuml(t, n, indent) ==
    LET node == t[n]
        node_type == node.type
        closing == <<UMLLine("}", n, indent, <<>>, NoAlias)>>
    IN  IF node_type = "Package"
        THEN LET children == IF IsDevelopmentPackage(node.name)
                             THEN reorder_children(t, Parts(t, n))
                             ELSE Parts(t, n)
             IN  <<UMLLine("package {", n, indent, node.name, node.alias)>>
                 \o generate_plantuml_children(t, children, indent + 1)
                 \o closing
        ELSE IF node_type = "LogicalComponent"
        THEN IF Parts(t, n) # <<>>
             THEN <<UMLLine("rectangle <<logicalComponent>> {", n, indent, node.name, node.alias)>>
                  \o generate_plantuml_children(t, Parts(t, n), indent + 1)
                  \o closing
             ELSE <<UMLLine("rectangle <<logicalComponent>>", n, indent, node.name, node.alias)>>
        ELSE IF node_type = "LogicalFunction"
        THEN <<UMLLine("class <<logicalFunction>> {", n, indent, node.name, node.alias),
               UMLLine("description =", n, indent + 1, DescriptionOr(node, <<>>), NoAlias)>>
             \o closing
        ELSE IF node_type = "LogicalActor"
        THEN <<UMLLine("rectangle <<logicalActor>>", n, indent, node.name, node.alias)>>
        ELSE <<UMLLine("package", n, indent, node.name, NoAlias)>>

\* for child in children: lines.extend(generate_plantuml(child, indent))
generate_plantuml_children(t, children, indent) ==
    IF children = <<>> THEN <<>>
    ELSE generate_plantuml(t, Head(children), indent)
         \o generate_plantuml_children(t, Tail(children), indent)

build_plantuml_from_tree(t) ==
    <<UMLLine("@startuml ...", 0, 0, <<>>, NoAlias)>>
    \o generate_plantuml_children(t, Parts(t, 0), 0)
    \o <<UMLLine("@enduml", 0, 0, <<>>, NoAlias)>>

-----------------------------------------------------------------------------
(* SysML2dot.build_dot_from_tree *)
(*                                                                         *)
(* next_id() returns "id<node_counter>" after node_counter += 1; an id is  *)
(* modelled by its number, cluster_<id> by the same number in the field    *)
(* `cluster`.  node_counter lives in the call: it is threaded through the  *)
(* operators below and starts at 0 in build_dot_from_tree.                 *)

DotLine(kind, n, indent, cluster, rep, label) ==
    [kind |-> kind, node |-> n, indent |-> indent, cluster |-> cluster,
     rep |-> rep, label |-> label]

NoLabel == PlainLabel(<<>>)

\* faulty variant, used to test the sensitivity of the properties: `node_counter += 1` lost
next_id_not_incremented(node_counter) == node_counter

\* next_id(): node_counter += 1; return f"id{node_counter}"
next_id(node_counter) == node_counter + 1

RECURSIVE generate_dot(_, _, _, _), generate_dot_children(_, _, _, _)
\* generate_dot(node, indent) called with node_counter = counter:
\* [rep |-> rep_node, lines |-> dot_lines, counter |-> node_counter after]
generate_dot(t, n, indent, counter) ==
    LET node == t[n]
        cluster_id == next_id(counter)
        rep_node == next_id(cluster_id)
        typ == node.type
        open == <<DotLine("subgraph {", n, indent, cluster_id, 0, NoLabel)>>
        close == <<DotLine("}", n, indent, cluster_id, 0, NoLabel)>>
        nested == generate_dot_children(t, Parts(t, n), indent + 4, rep_node)
        leaf(lines) == [rep |-> rep_node, lines |-> open \o lines \o close,
                        counter |-> rep_node]
    IN  IF typ = "LogicalFunction"
        THEN leaf(<<DotLine("rep", n, indent + 4, cluster_id, rep_node,
                      html_label_two_compartment(node.name, DescriptionOr(node, <<>>)))>>)
        ELSE IF typ = "LogicalComponent"
        THEN IF Parts(t, n) # <<>>
             THEN [rep |-> rep_node,
                   lines |-> open
                             \o <<DotLine("label =", n, indent + 4, cluster_id, 0, PlainLabel(node.name)),
                                  DotLine("style=filled;fillcolor=lightblue;margin=10", n, indent + 4,
                                          cluster_id, 0, NoLabel),
                                  DotLine("rep", n, indent + 4, cluster_id, rep_node, NoLabel)>>
                             \o nested.lines \o close,
                   counter |-> nested.counter]
             ELSE leaf(<<DotLine("rep", n, indent + 4, cluster_id, rep_node,
                           html_label_bottom_only(node.name))>>)
        ELSE IF typ = "LogicalActor"
        THEN leaf(<<DotLine("rep", n, indent + 4, cluster_id, rep_node,
                      html_label_bottom_only(node.name))>>)
        ELSE IF typ = "Package"
        THEN [rep |-> rep_node,
              lines |-> open
                        \o <<DotLine("label =", n, indent + 4, cluster_id, 0, PlainLabel(node.name)),
                             DotLine("rep", n, indent + 4, cluster_id, rep_node, NoLabel)>>
                        \o nested.lines \o close,
              counter |-> nested.counter]
        ELSE leaf(<<DotLine("rep", n, indent + 4, cluster_id, rep_node, PlainLabel(node.name))>>)

\* for child in node.get("parts", []): ... dot_lines.extend(child_lines)
generate_dot_children(t, children, indent, counter) ==
    IF children = <<>> THEN [lines |-> <<>>, counter |-> counter]
    ELSE LET first == generate_dot(t, Head(children), indent, counter)
             others == generate_dot_children(t, Tail(children), indent, first.counter)
         IN  [lines |-> first.lines \o others.lines, counter |-> others.counter]

\* child_name == "DroneFunctions", child_name = child.get("name", "").strip()
IsTopFunctions(name) == StripSpace(name) = <<DroneFunctions>>
\* child_name == "DroneLogicalArchitecture"
IsTopArchitecture(name) == StripSpace(name) = <<DroneLogicalArchitecture>>

\* faulty variant, used to test the sensitivity of the properties: the edge drawn the other way round
ordering_edge_reversed(top_functions, top_architecture) ==
    IF top_functions # 0 /\ top_architecture # 0
    THEN <<DotLine("-> [style=invis]", 0, 4, top_architecture, top_functions, NoLabel)>>
    ELSE <<>>

\* `if top_functions and top_architecture:` the invisible edge, from the id
\* in `cluster` to the id in `rep` (None is 0)
ordering_edge(top_functions, top_architecture) ==
    IF top_functions # 0 /\ top_architecture # 0
    THEN <<DotLine("-> [style=invis]", 0, 4, top_functions, top_architecture, NoLabel)>>
    ELSE <<>>

\* the loop over tree.get("parts", []): the lines, node_counter,
\* top_functions and top_architecture after it
RECURSIVE top_level_loop(_, _, _)
top_level_loop(t, children, acc) ==
    IF children = <<>> THEN acc
    ELSE LET child == Head(children)
             g == generate_dot(t, child, 4, acc.counter)
             child_name == t[child].name
         IN  top_level_loop(t, Tail(children),
                [lines |-> acc.lines \o g.lines,
                 counter |-> g.counter,
                 top_functions |-> IF IsTopFunctions(child_name) THEN g.rep
                                   ELSE acc.top_functions,
                 top_architecture |-> IF ~IsTopFunctions(child_name) /\ IsTopArchitecture(child_name)
                                      THEN g.rep ELSE acc.top_architecture])

\* faulty variant, used to test the sensitivity of the properties: node_counter kept from call to call
node_counter_kept(before) == before

\* `node_counter = 0` in the body of build_dot_from_tree: the counter a call
\* starts with, `before` being the value the call before it ended with
node_counter_at_entry(before) == 0

\* build_dot_from_tree(tree), called after a call that used `before` ids
build_dot_from_tree_after(t, before) ==
    LET header == <<DotLine("digraph G { ...", 0, 0, 0, 0, NoLabel)>>
        done == top_level_loop(t, Parts(t, 0),
                    [lines |-> <<>>, counter |-> node_counter_at_entry(before),
                     top_functions |-> 0, top_architecture |-> 0])
    IN  header \o done.lines
        \o ordering_edge(done.top_functions, done.top_architecture)
        \o <<DotLine("}", 0, 0, 0, 0, NoLabel)>>

\* build_dot_from_tree(tree), the first call of a run
build_dot_from_tree(t) == build_dot_from_tree_after(t, 0)

-----------------------------------------------------------------------------
(* package_pattern and actor_pattern, token by token *)
(*                                                                         *)
(* A line is the sequence of its tokens after the leading whitespace: the  *)
(* keyword, then blanks, double quotes, underscores, braces and runs of    *)
(* letters ("as" being the run the pattern looks for).                     *)

LetterRuns == {"N", "M", "as"}
\* [A-Za-z0-9\s]
NameClass == LetterRuns \cup {SP}
\* \w
WordClass == LetterRuns \cup {"_"}
NoMatch == [ok |-> FALSE, name |-> <<>>, alias |-> NoAlias]

\* the position after the longest run of tokens of class cls that starts at i
RECURSIVE RunEnd(_, _, _)
RunEnd(s, i, cls) ==
    IF i <= Len(s) /\ s[i] \in cls THEN RunEnd(s, i + 1, cls) ELSE i

\* (?:as\s+(\w+))? tried at position i: group 2, or NoAlias
AliasGroup(s, i) ==
    IF i <= Len(s) /\ s[i] = "as"
    THEN LET b == RunEnd(s, i + 1, {SP})
             e == RunEnd(s, b, WordClass)
         IN  IF b > i + 1 /\ e > b THEN SubSeq(s, b, e - 1) ELSE NoAlias
    ELSE NoAlias

\* ("?[A-Za-z0-9\s]+"?)\s*(?:as\s+(\w+))? with group 1 starting at p and its
\* letters at q (q = p + 1 when the opening quote is taken)
NameGroup(s, p, q) ==
    LET r == RunEnd(s, q, NameClass)
        e == IF r <= Len(s) /\ s[r] = QUOTE THEN r + 1 ELSE r
    IN  IF r > q
        THEN [ok |-> TRUE, name |-> SubSeq(s, p, e - 1),
              alias |-> AliasGroup(s, RunEnd(s, e, {SP}))]
        ELSE NoMatch

\* \s+("?[A-Za-z0-9\s]+"?)\s*(?:as\s+(\w+))? on the tokens after the keyword:
\* every quantifier greedy, the first way to match in the order a
\* backtracking matcher tries them.  \s+ takes all the blanks; if the name
\* cannot start after them, it gives one back.
NamePattern(s) ==
    LET b == RunEnd(s, 2, {SP})
        quoted == IF b <= Len(s) /\ s[b] = QUOTE THEN NameGroup(s, b, b + 1) ELSE NoMatch
        plain == NameGroup(s, b, b)
    IN  IF b = 2 THEN NoMatch
        ELSE IF quoted.ok THEN quoted
        ELSE IF plain.ok THEN plain
        ELSE IF b > 3 THEN NameGroup(s, b - 1, b - 1)
        ELSE NoMatch

\* package_pattern.match(line)
PackagePattern(s) == IF s # <<>> /\ s[1] = "package" THEN NamePattern(s) ELSE NoMatch
\* actor_pattern.match(line)
ActorPattern(s) == IF s # <<>> /\ s[1] = "actor" THEN NamePattern(s) ELSE NoMatch

\* name = m.group(1).strip('"').strip() in SysML2Mermaid and SysML2dot,
\* name = m.group(1).strip('"') in SysML2UML
NameOf(v, group1) ==
    IF v = "UML" THEN StripQuote(group1) ELSE StripSpace(StripQuote(group1))

\* the node made from a match: its type, name and "alias" key
MatchedNode(v, type, m) ==
    [type |-> type, name |-> NameOf(v, m.name), alias |-> m.alias]

(* The lines read: keyword, blanks, a name of one or more words, quoted or *)
(* not, an `as` clause or none, a trailing brace or none.                  *)

Blanks(n) == [i \in 1..n |-> SP]
RECURSIVE JoinWords(_)
JoinWords(ws) ==
    IF Len(ws) <= 1 THEN ws ELSE <<Head(ws), SP>> \o JoinWords(Tail(ws))
Quoted(b) == IF b THEN <<QUOTE>> ELSE <<>>
AsClause(a) == IF a = NoAlias THEN <<>> ELSE <<SP, "as", SP>> \o a
BraceTail(b) == IF b THEN <<SP, "{">> ELSE <<>>

NameWords == UNION {[1..n -> {"N", "M"}] : n \in 1..MaxWords}
Aliases == {<<"M">>, <<"M", "_", "N">>}

DeclarationText(kw, lead, qo, ws, qc, a, b) ==
    <<kw>> \o Blanks(lead) \o Quoted(qo) \o JoinWords(ws) \o Quoted(qc)
           \o AsClause(a) \o BraceTail(b)

Texts ==
    {DeclarationText(kw, lead, qo, ws, qc, a, b) :
        kw \in {"package", "actor"}, lead \in 1..MaxSpaces, qo \in BOOLEAN,
        ws \in NameWords, qc \in BOOLEAN, a \in Aliases \cup {NoAlias}, b \in BOOLEAN}

MatchPackage ==
    /\ matched = <<>>
    /\ PackagePattern(text).ok
    /\ matched' = MatchedNode(variant, "Package", PackagePattern(text))
    /\ UNCHANGED <<variant, text, codeVars, parserVars>>

MatchActor ==
    /\ matched = <<>>
    /\ ~PackagePattern(text).ok
    /\ ActorPattern(text).ok
    /\ matched' = MatchedNode(variant, "LogicalActor", ActorPattern(text))
    /\ UNCHANGED <<variant, text, codeVars, parserVars>>

InitClassify ==
    /\ variant \in Variants
    /\ text \in Texts
    /\ matched = <<>>
    /\ mermaid_code = NotBuilt
    /\ plantuml_code = NotBuilt
    /\ dot_code = NotBuilt
    /\ again = NotCalledAgain
    /\ input = <<>>
    /\ stack = ParserInit.stack
    /\ prev_indent = ParserInit.prev_indent
    /\ nodes = ParserInit.nodes
    /\ root = ParserInit.root
    /\ printed = ParserInit.printed
    /\ crashed = ParserInit.crashed

NextClassify == MatchPackage \/ MatchActor

SpecClassify == InitClassify /\ [][NextClassify]_vars

\* C8: a line `package N as A` or `actor N as A`, N unquoted, with or
\* without a trailing brace, makes a node of name N and alias A.
C8_AliasSeparatedFromName ==
    \A kw \in {"package", "actor"}, lead \in 1..MaxSpaces, ws \in NameWords,
       a \in Aliases, b \in BOOLEAN :
        (text = DeclarationText(kw, lead, FALSE, ws, FALSE, a, b) /\ matched # <<>>) =>
            matched.name = JoinWords(ws) /\ matched.alias = a

-----------------------------------------------------------------------------
(* Properties of the parser *)

DeclarationKinds == {"package", "part", "actor"}
PureIndentation == variant \in {"Mermaid", "dot"}

\* the step reads one more line
ReadsLine == input' # input
LineRead == input'[Len(input')]

\* the entries of a stack whose recorded indent is strictly less than w,
\* the sentinel always among them
Shallower(stk, w) == SelectSeq(stk, LAMBDA e : e.node = 0 \/ e.indent < w)

\* the entries of stack' that were on the stack before the step
Surviving == SelectSeq(stack', LAMBDA e : e.node <= Len(nodes))

\* C1: in the pure-indentation parser every line of width w leaves open
\* exactly the sentinel and the entries of recorded indent < w (the guard
\* `indent <= prev_indent` suppresses no pop of the rule), and a declaration
\* line is attached as a child of the nearest of them.
C1_AttachToNearestShallower ==
    [][(PureIndentation /\ ReadsLine) =>
          LET w == LineRead.indent
              open == Shallower(stack, w)
          IN  /\ Surviving = open
              /\ LineRead.kind \in DeclarationKinds =>
                    /\ Len(nodes') = Len(nodes) + 1
                    /\ nodes'[Len(nodes')].parent = open[Len(open)].node]_vars

\* a declaration closed two levels at once and went to the root
C1_Witness ==
    /\ PureIndentation
    /\ Len(input) = 3
    /\ \A k \in 1..3 : input[k].kind \in DeclarationKinds
    /\ input[1].indent = 1 /\ input[2].indent = 2 /\ input[3].indent = 0
    /\ nodes[2].parent = 1
    /\ nodes[3].parent = 0
    /\ stack = <<Sentinel, [indent |-> 0, node |-> 3]>>

Recognized(line) == line.kind \in DeclarationKinds \cup {"description"}

\* C2: the tree built from a text is the tree built from the text with its
\* unrecognized lines deleted.
C2_UnrecognizedLinesIgnored ==
    PureIndentation =>
        LET without == ParseAll(variant, ParserInit, SelectSeq(input, Recognized))
        IN  nodes = without.nodes /\ root = without.root

\* C3: a node made from a part whose type is none of LogicalComponent,
\* LogicalFunction, LogicalActor is a leaf: never on the scope stack, never
\* a parent.
C3_OtherTypedPartsAreLeaves ==
    PureIndentation =>
        \A i \in 1..Len(nodes) :
            nodes[i].type \notin ScopeTypes \cup {"Package"} =>
                /\ \A k \in 1..Len(stack) : stack[k].node # i
                /\ \A j \in 1..Len(nodes) : nodes[j].parent # i

\* what a description line is to change: the description of node p (0: the
\* root) and nothing else
DescribesOnly(p, desc) ==
    /\ Len(nodes') = Len(nodes)
    /\ IF p = 0
       THEN root' = [root EXCEPT !.description = desc] /\ nodes' = nodes
       ELSE nodes' = [nodes EXCEPT ![p].description = desc] /\ root' = root

ReadsDescription == PureIndentation /\ ReadsLine /\ LineRead.kind = "description"

\* C4 as stated: a description line of width w sets the description of the
\* nearest open declaration of indentation <= w (the root if none), and of
\* no other node.
C4_DescriptionAtOrAbove ==
    [][ReadsDescription =>
          LET w == LineRead.indent
              open == SelectSeq(stack, LAMBDA e : e.node = 0 \/ e.indent <= w)
          IN  DescribesOnly(open[Len(open)].node, LineRead.name)]_vars

\* C4 amended: a description line of width w sets the description of the
\* nearest open declaration of indentation strictly less than w (the root if
\* none), and of no other node; it creates no node.  Written at the
\* indentation of the declaration just before it, it describes that
\* declaration's parent.
C4_DescriptionStrictlyAbove ==
    [][ReadsDescription =>
          LET w == LineRead.indent
              open == Shallower(stack, w)
          IN  /\ DescribesOnly(open[Len(open)].node, LineRead.name)
              /\ (input # <<>> /\ input[Len(input)].kind \in DeclarationKinds
                    /\ input[Len(input)].indent = w) =>
                    DescribesOnly(nodes[Len(nodes)].parent, LineRead.name)]_vars

\* a description at the indentation of the part just before it went to the
\* package above the part
C4_Witness ==
    /\ PureIndentation
    /\ Len(input) = 3
    /\ input[1].kind = "package" /\ input[1].indent = 0
    /\ input[2].kind = "part" /\ input[2].indent = 1
    /\ input[3].kind = "description" /\ input[3].indent = 1
    /\ nodes[1].description = <<"d">>
    /\ nodes[2].description = NoDescription
    /\ root.description = NoDescription

Unmatched(line) == line.kind \in {"closing_brace", "other"}

\* C7 as stated: in each of the three parsers the diagnostics are the
\* unmatched lines, one each, a bare closing brace among them.
C7_OneWarningPerUnmatchedLine ==
    printed = SelectSeq(input, Unmatched)

\* C7 amended: the diagnostics are the unmatched lines, one each, in
\* SysML2Mermaid and SysML2dot; in SysML2UML they are the unmatched lines
\* other than a bare closing brace, which is passed over silently.
\* Parsing goes on after a diagnostic.
C7_OneWarningPerUnmatchedLineButUMLBrace ==
    /\ ~crashed
    /\ printed = SelectSeq(input,
                    LAMBDA l : Unmatched(l) /\ ~(variant = "UML" /\ l.kind = "closing_brace"))

\* SysML2UML read a closing brace, an unmatched line and a declaration: one
\* diagnostic, and the declaration after it made its node
C7_Witness ==
    /\ variant = "UML"
    /\ Len(input) = 3
    /\ input[1].kind = "closing_brace"
    /\ input[2].kind = "other"
    /\ input[3].kind = "package"
    /\ printed = <<input[2]>>
    /\ Len(nodes) = 1

\* the stack parse_indented_model had before it read the last line of input
StackBefore ==
    ParseAll(variant, ParserInit, SubSeq(input, 1, Len(input) - 1)).stack

\* C14: in the three parsers, after any prefix of any text, the stack is
\* not empty, its bottom entry is the sentinel (0, root) and no other entry
\* is the root; every entry above it is a node of the tree, so stack[-1][1]
\* is defined at every attach and description assignment, and no line makes
\* the parser fail.
C14_SentinelNeverPopped ==
    /\ ~crashed
    /\ stack # <<>>
    /\ stack[1] = Sentinel
    /\ \A k \in 2..Len(stack) : stack[k].node \in 1..Len(nodes)

\* SysML2UML, whose loop has no len(stack) > 1 guard: a line of width 0
\* closed every open scope and the stack is the sentinel alone
C14_Witness ==
    /\ variant = "UML"
    /\ Len(input) >= 3
    /\ input[Len(input)].indent = 0
    /\ Len(StackBefore) = 3
    /\ stack = <<Sentinel>>
    /\ ~crashed

-----------------------------------------------------------------------------
(* The builders as state machines.  The initial state is the state         *)
(* parse_indented_model returns in, after a text of declarations each      *)
(* indented by its nesting depth.                                          *)

\* the indentations of n lines that nest: the first at 0, none more than
\* one deeper than the line before it
Depths(n) ==
    {d \in [1..n -> 0..(n - 1)] :
        /\ n >= 1 => d[1] = 0
        /\ \A i \in 1..(n - 1) : d[i + 1] <= d[i] + 1}

Declaration(k, n, t, b) == [kind |-> k, name |-> n, type |-> t, brace |-> b]

\* the text of declarations decl[1..n] indented by d[1..n]
NestedText(d, decl) ==
    [i \in DOMAIN decl |->
        Line(d[i], decl[i].kind, decl[i].name, decl[i].type, decl[i].brace)]

\* `package x y`, parts of the three special types and of another, an actor
TypedDeclarations ==
    {Declaration("package", <<"x", SP, "y">>, "", FALSE),
     Declaration("part", PlainName, "LogicalComponent", FALSE),
     Declaration("part", PlainName, "LogicalFunction", FALSE),
     Declaration("part", PlainName, "Sensor", FALSE),
     Declaration("actor", PlainName, "", FALSE)}

\* lines of SysML2UML that open a scope (a trailing brace, which group 1 of
\* package_pattern reaches up to: the name of an unquoted package ends with
\* the blank before it): packages DroneDevelopment, DroneFunctions and x,
\* the first two also quoted with a leading blank, and a LogicalComponent
\* part called DroneDevelopment
UMLDeclarations ==
    {Declaration("package", <<DroneDevelopment, SP>>, "", TRUE),
     Declaration("package", <<QUOTE, SP, DroneDevelopment, QUOTE>>, "", TRUE),
     Declaration("package", <<DroneFunctions, SP>>, "", TRUE),
     Declaration("package", <<QUOTE, SP, DroneFunctions, QUOTE>>, "", TRUE),
     Declaration("package", <<"x", SP>>, "", TRUE),
     Declaration("part", <<DroneDevelopment>>, "LogicalComponent", TRUE)}

\* lines of SysML2dot: packages DroneFunctions, DroneLogicalArchitecture,
\* DroneFunctions2 and x, a LogicalComponent part called
\* DroneLogicalArchitecture, a LogicalFunction part, an actor
DotDeclarations ==
    {Declaration("package", <<DroneFunctions>>, "", FALSE),
     Declaration("package", <<DroneLogicalArchitecture>>, "", FALSE),
     Declaration("package", <<DroneFunctions, "2">>, "", FALSE),
     Declaration("package", PlainName, "", FALSE),
     Declaration("part", <<DroneLogicalArchitecture>>, "LogicalComponent", FALSE),
     Declaration("part", PlainName, "LogicalFunction", FALSE),
     Declaration("actor", PlainName, "", FALSE)}

\* tree = parse_indented_model(sysml_text)
Parsed(v, declarations, max) ==
    /\ variant = v
    /\ \E n \in 0..max : \E d \in Depths(n) : \E decl \in [1..n -> declarations] :
           input = NestedText(d, decl)
    /\ \E st \in {ParseAll(v, ParserInit, input)} :
           /\ stack = st.stack
           /\ prev_indent = st.prev_indent
           /\ nodes = st.nodes
           /\ root = st.root
           /\ printed = st.printed
           /\ crashed = st.crashed
    /\ text = <<>>
    /\ matched = <<>>
    /\ mermaid_code = NotBuilt
    /\ plantuml_code = NotBuilt
    /\ dot_code = NotBuilt
    /\ again = NotCalledAgain

\* mermaid_code = build_mermaid_flowchart_from_tree(tree)
BuildMermaid ==
    /\ mermaid_code = NotBuilt
    /\ mermaid_code' = build_mermaid_flowchart_from_tree(nodes)
    /\ UNCHANGED <<variant, text, matched, parserVars, plantuml_code, dot_code, again>>

\* plantuml_code = build_plantuml_from_tree(tree)
BuildPlantUML ==
    /\ plantuml_code = NotBuilt
    /\ plantuml_code' = build_plantuml_from_tree(nodes)
    /\ UNCHANGED <<variant, text, matched, parserVars, mermaid_code, dot_code, again>>

\* dot_code = build_dot_from_tree(tree)
BuildDot ==
    /\ dot_code = NotBuilt
    /\ dot_code' = build_dot_from_tree(nodes)
    /\ UNCHANGED <<variant, text, matched, parserVars, mermaid_code, plantuml_code, again>>

\* one tree (the Model1.json of SysML2Mermaid) given to the three builders
InitRender == Parsed("Mermaid", TypedDeclarations, MaxNodes)
NextRender == BuildMermaid \/ BuildPlantUML \/ BuildDot
SpecRender == InitRender /\ [][NextRender]_vars

\* SysML2UML: parse, then build
InitUML == Parsed("UML", UMLDeclarations, MaxUMLNodes)
NextUML == BuildPlantUML
SpecUML == InitUML /\ [][NextUML]_vars

\* SysML2dot: parse, then build
InitDot == Parsed("dot", DotDeclarations, MaxNodes)
NextDot == BuildDot
SpecDot == InitDot /\ [][NextDot]_vars

\* node_counter when a build_dot_from_tree call that returned code ends:
\* the number of the last identifier it handed out
LastId(code) ==
    LET ids == {code[k].cluster : k \in 1..Len(code)} \cup {code[k].rep : k \in 1..Len(code)}
    IN  CHOOSE m \in ids \cup {0} : \A i \in ids : i <= m

\* each program calling its builder, and then calling it once more on the
\* same tree
CallMermaid == variant = "Mermaid" /\ BuildMermaid
CallPlantUML == variant = "UML" /\ BuildPlantUML
CallDot == variant = "dot" /\ BuildDot

CallMermaidAgain ==
    /\ variant = "Mermaid"
    /\ mermaid_code # NotBuilt
    /\ again.mermaid = NotBuilt
    /\ again' = [again EXCEPT !.mermaid = build_mermaid_flowchart_from_tree(nodes)]
    /\ UNCHANGED <<variant, text, matched, parserVars, mermaid_code, plantuml_code, dot_code>>

CallPlantUMLAgain ==
    /\ variant = "UML"
    /\ plantuml_code # NotBuilt
    /\ again.plantuml = NotBuilt
    /\ again' = [again EXCEPT !.plantuml = build_plantuml_from_tree(nodes)]
    /\ UNCHANGED <<variant, text, matched, parserVars, mermaid_code, plantuml_code, dot_code>>

CallDotAgain ==
    /\ variant = "dot"
    /\ dot_code # NotBuilt
    /\ again.dot = NotBuilt
    /\ again' = [again EXCEPT !.dot = build_dot_from_tree_after(nodes, LastId(dot_code))]
    /\ UNCHANGED <<variant, text, matched, parserVars, mermaid_code, plantuml_code, dot_code>>

InitTwice ==
    \/ Parsed("Mermaid", TypedDeclarations, MaxNodes)
    \/ Parsed("UML", UMLDeclarations, MaxNodes)
    \/ Parsed("dot", DotDeclarations, MaxNodes)
NextTwice ==
    \/ CallMermaid
    \/ CallPlantUML
    \/ CallDot
    \/ CallMermaidAgain
    \/ CallPlantUMLAgain
    \/ CallDotAgain
SpecTwice == InitTwice /\ [][NextTwice]_vars

-----------------------------------------------------------------------------
(* Properties of the builders *)

NodeIds == 1..Len(nodes)

RECURSIVE IsAncestor(_, _, _)
\* a is a proper ancestor of i in tree t
IsAncestor(t, a, i) ==
    t[i].parent # 0 /\ (t[i].parent = a \/ IsAncestor(t, a, t[i].parent))

\* the positions of the lines of a text that node i's call wrote
LinesOf(code, i) == {k \in 1..Len(code) : code[k].node = i}

\* the positions where an entry for node i starts
MermaidEntries(i) ==
    {k \in LinesOf(mermaid_code, i) : mermaid_code[k].kind \in {"subgraph", "entry"}}

\* C5: build_mermaid_flowchart_from_tree writes exactly one entry per node,
\* and the entries of a Package's descendants between the Package's
\* `subgraph` line and its `end`.
C5_OneEntryPerNode ==
    mermaid_code # NotBuilt =>
        \A i \in NodeIds :
            /\ Cardinality(MermaidEntries(i)) = 1
            /\ \A p \in NodeIds :
                 (nodes[p].type = "Package" /\ IsAncestor(nodes, p, i)) =>
                    \A k \in MermaidEntries(i) :
                        \E a, b \in LinesOf(mermaid_code, p) :
                            /\ mermaid_code[a].kind = "subgraph"
                            /\ mermaid_code[b].kind = "end"
                            /\ a < k /\ k < b

\* node i has lines in the text, all of them within the lines of node p
NestedIn(code, i, p) ==
    \A k \in LinesOf(code, i) :
        \E a, b \in LinesOf(code, p) : a < k /\ k < b

\* C6: a node is rendered by one builder iff by the two others, and in each
\* text inside the construct of its parent.
C6_SameContainment ==
    (mermaid_code # NotBuilt /\ plantuml_code # NotBuilt /\ dot_code # NotBuilt) =>
        \A i \in NodeIds :
            /\ (LinesOf(mermaid_code, i) # {}) = (LinesOf(plantuml_code, i) # {})
            /\ (LinesOf(plantuml_code, i) # {}) = (LinesOf(dot_code, i) # {})
            /\ nodes[i].parent # 0 =>
                 /\ NestedIn(mermaid_code, i, nodes[i].parent)
                 /\ NestedIn(plantuml_code, i, nodes[i].parent)
                 /\ NestedIn(dot_code, i, nodes[i].parent)

\* the children of node p in the order build_plantuml_from_tree wrote them:
\* the nodes of the lines that start a child of p
UMLStarts == {"package {", "package", "rectangle <<logicalComponent>> {",
              "rectangle <<logicalComponent>>", "class <<logicalFunction>> {",
              "rectangle <<logicalActor>>"}
EmittedChildren(p) ==
    LET starts == SelectSeq(plantuml_code,
                    LAMBDA l : l.kind \in UMLStarts /\ l.node # 0 /\ nodes[l.node].parent = p)
    IN  [k \in 1..Len(starts) |-> starts[k].node]

\* em holds every element of children once, those that satisfy F first,
\* each group in the order of children (which is increasing)
StablePartition(em, children, F(_)) ==
    /\ Len(em) = Len(children)
    /\ \A k \in 1..Len(children) : \E j \in 1..Len(em) : em[j] = children[k]
    /\ \A j, k \in 1..Len(em) :
         j < k => /\ ~(F(em[k]) /\ ~F(em[j]))
                  /\ F(em[j]) = F(em[k]) => em[j] < em[k]

\* the reordering rule with the names tested by Begins(name, prefix)
ReorderingRule(Begins(_, _)) ==
    plantuml_code # NotBuilt =>
        \A p \in NodeIds :
            (LinesOf(plantuml_code, p) # {} /\ nodes[p].type \in {"Package", "LogicalComponent"}) =>
                IF nodes[p].type = "Package" /\ Begins(nodes[p].name, DroneDevelopment)
                THEN StablePartition(EmittedChildren(p), Parts(nodes, p),
                                     LAMBDA c : Begins(nodes[c].name, DroneFunctions))
                ELSE EmittedChildren(p) = Parts(nodes, p)

\* C9 as stated: the children of a Package whose name begins with
\* DroneDevelopment are written as a stable partition, those whose name
\* begins with DroneFunctions first; the children of any other Package and
\* of a LogicalComponent in the order of the tree.
C9_ReorderByName == ReorderingRule(StartsWith)

BeginsTrimmed(name, prefix) == StartsWith(StripSpace(name), prefix)

\* C9 amended: the same with every name taken without its leading and
\* trailing whitespace.
C9_ReorderByTrimmedName == ReorderingRule(BeginsTrimmed)

\* DroneDevelopment holding x, DroneFunctions, x was written with
\* DroneFunctions first, and a DroneFunctions package inside x stayed behind
\* its sibling
C9_Witness ==
    /\ plantuml_code # NotBuilt
    /\ Len(nodes) = 4
    /\ nodes[1].type = "Package" /\ nodes[1].name = <<DroneDevelopment, SP>>
    /\ Parts(nodes, 1) = <<2, 3, 4>>
    /\ nodes[2].name = <<"x", SP>>
    /\ nodes[3].name = <<DroneFunctions, SP>>
    /\ nodes[4].type = "LogicalComponent"
    /\ EmittedChildren(1) = <<3, 2, 4>>

\* the invisible edges of dot_code
DotEdges == {k \in 1..Len(dot_code) : dot_code[k].kind = "-> [style=invis]"}
TopNamed(name) == {i \in NodeIds : nodes[i].parent = 0 /\ nodes[i].name = <<name>>}
\* id is declared in dot_code as the representative point of the cluster of node i
IsRepOf(id, i) ==
    \E k \in LinesOf(dot_code, i) : dot_code[k].kind = "rep" /\ dot_code[k].rep = id

\* C10: dot_code has an invisible edge iff a child of the root is named
\* exactly DroneFunctions and another exactly DroneLogicalArchitecture; then
\* it has one, from the representative point of the first to that of the
\* second, after all clusters.
C10_OrderingEdge ==
    dot_code # NotBuilt =>
        /\ (DotEdges # {}) = (TopNamed(DroneFunctions) # {} /\ TopNamed(DroneLogicalArchitecture) # {})
        /\ Cardinality(DotEdges) <= 1
        /\ \A k \in DotEdges :
             /\ \E f \in TopNamed(DroneFunctions) : IsRepOf(dot_code[k].cluster, f)
             /\ \E a \in TopNamed(DroneLogicalArchitecture) : IsRepOf(dot_code[k].rep, a)
             /\ k = Len(dot_code) - 1
             /\ \A j \in 1..Len(dot_code) : dot_code[j].node # 0 => j < k

\* DroneLogicalArchitecture declared before DroneFunctions, which holds a
\* DroneLogicalArchitecture of its own: one edge, from id6 to id2
C10_Witness ==
    /\ dot_code # NotBuilt
    /\ Len(nodes) = 3
    /\ nodes[1].name = <<DroneLogicalArchitecture>> /\ nodes[1].parent = 0
    /\ nodes[2].name = <<DroneFunctions>> /\ nodes[2].parent = 0
    /\ nodes[3].name = <<DroneLogicalArchitecture>> /\ nodes[3].parent = 2
    /\ \E k \in DotEdges : dot_code[k].cluster = 4 /\ dot_code[k].rep = 2

\* the lines of dot_code that open a cluster, in the order written
DotClusters == SelectSeq(dot_code, LAMBDA l : l.kind = "subgraph {")
\* the lines of dot_code that declare a representative point
DotReps == SelectSeq(dot_code, LAMBDA l : l.kind = "rep")
\* the numbers of the identifiers cluster_id<n> and id<n> of dot_code
DotIds == {DotClusters[k].cluster : k \in 1..Len(DotClusters)}
              \cup {DotReps[k].rep : k \in 1..Len(DotReps)}

\* C11: in one build_dot_from_tree call the k-th node written (in pre-order,
\* each node once) has the cluster identifier of counter value 2k-1 and the
\* representative point of counter value 2k, whatever its name; so the
\* identifiers of the output are pairwise distinct.
C11_IdsFromOneCounter ==
    dot_code # NotBuilt =>
        /\ Len(DotReps) = Len(DotClusters)
        /\ \A k \in 1..Len(DotClusters) :
             /\ DotClusters[k].cluster = 2 * k - 1
             /\ DotReps[k].node = DotClusters[k].node
             /\ DotReps[k].rep = 2 * k
             /\ DotReps[k].cluster = DotClusters[k].cluster
             /\ k > 1 => DotClusters[k - 1].node < DotClusters[k].node
        /\ Cardinality(DotIds) = 2 * Len(DotClusters)

\* three packages of one name, the second inside the first: six identifiers
C11_Witness ==
    /\ dot_code # NotBuilt
    /\ Len(nodes) = 3
    /\ \A i \in 1..3 : nodes[i].type = "Package" /\ nodes[i].name = nodes[1].name
    /\ nodes[2].parent = 1
    /\ nodes[3].parent = 0
    /\ DotIds = 1..6
    /\ DotReps[3].node = 3 /\ DotReps[3].rep = 6

\* the nodes of the lines of code that start an entry (a line whose kind is
\* in starts) for a child of node p, in the order written
ChildEntries(code, starts, p) ==
    LET lines == SelectSeq(code,
                    LAMBDA l : l.kind \in starts /\ l.node # 0 /\ nodes[l.node].parent = p)
    IN  [k \in 1..Len(lines) |-> lines[k].node]

\* the children of node p that code has an entry for, in the order of
\* their declaration
WrittenParts(code, p) == SelectSeq(Parts(nodes, p), LAMBDA c : LinesOf(code, c) # {})

\* C12: in the output of each of the three builders the entries of the
\* children of a node (the root included) are in the order in which the
\* children were declared, each child once; the children of a Package that
\* build_plantuml_from_tree reorders are excepted.  (A child a builder
\* writes nothing for is not counted against the order.)
C12_OrderPreserved ==
    /\ mermaid_code # NotBuilt =>
          \A p \in {0} \cup NodeIds :
              ChildEntries(mermaid_code, {"subgraph", "entry"}, p) = WrittenParts(mermaid_code, p)
    /\ plantuml_code # NotBuilt =>
          \A p \in {0} \cup NodeIds :
              ~(p # 0 /\ nodes[p].type = "Package" /\ IsDevelopmentPackage(nodes[p].name)) =>
                  ChildEntries(plantuml_code, UMLStarts, p) = WrittenParts(plantuml_code, p)
    /\ dot_code # NotBuilt =>
          \A p \in {0} \cup NodeIds :
              ChildEntries(dot_code, {"subgraph {"}, p) = WrittenParts(dot_code, p)

\* what the second call of a builder returned is what the first returned
SameTextAgain ==
    /\ again.mermaid # NotBuilt => again.mermaid = mermaid_code
    /\ again.plantuml # NotBuilt => again.plantuml = plantuml_code
    /\ again.dot # NotBuilt => again.dot = dot_code
\* the identifiers of the second build_dot_from_tree call start at 1 again
CounterRestarts ==
    again.dot # NotBuilt =>
        LET opened == SelectSeq(again.dot, LAMBDA l : l.kind = "subgraph {")
        IN  opened # <<>> => opened[1].cluster = 1
\* a call of a builder leaves the tree as it was
TreeKept == nodes' = nodes /\ root' = root

=============================================================================
